---- MODULE Spec2Model ----
(***************************************************************************)
(* gemini-sonic: the session orchestration of src/App.tsx (the App         *)
(* component of lines 365-853) with the GeminiService it calls.            *)
(*                                                                         *)
(* One action per event handler and per continuation of an async handler.  *)
(* JavaScript runs each handler, and each continuation after an `await`,   *)
(* to its next `await` without interleaving, and React applies the state   *)
(* updates of one such run as one batch: so each is one atomic action.     *)
(* The awaited remote calls, the 600 ms timer and the audio `ended` event  *)
(* are the suspension points at which other handlers interleave.           *)
(***************************************************************************)
EXTENDS Integers, Sequences, FiniteSets, TLC

(* ---------------------------------------------------------------- bounds *)
\* handler invocations that were accepted (each one is an async task)
MaxTasks == 2
\* readings of Date.now() run over 0..MaxClock
MaxClock == 0

\* readings of Date.now() run over 0..MaxTick where the clock is followed
MaxTick == 2
\* searches submitted one after the other in SpecHistory
HistFlows == 21
\* searches submitted in SpecParse
ParseFlows == 1
\* characters of a backend text in SpecParse
MaxText == 5
\* grounding chunks of a backend reply in SpecParse
MaxChunks == 3

(* ------------------------------------------------------------- constants *)
\* prev.slice(0, 19): the entries of the previous history that are kept
KeepPrev == 19

(* ---------------------------------------------------------------- values *)
\* Strings that the code trims, matches or concatenates are sequences of
\* characters; " " and "\n" are the whitespace characters, and the literal
\* QUERY_USED: is one character of the alphabet, in either case.
NoText == <<>>
QueryInputs == {<<"a">>}
\* response.text of a text-transform call (undefined and "" are both falsy)
BackendTexts == {<<" ", "b">>}
\* response.text of the random-prompt call: missing or empty, blank, a topic
LuckyTexts == {<<>>, <<" ">>, <<" ", "b">>}
DefaultLuckyQuery == <<"Why is the sky blue?">>
InDetail == <<" ", "in detail">>
\* err.message of a rejected remote call
RejectMessages == {"Network error"}
NullError == "null"
\* the payload generateContent returns for a speech request: none, PCM, or
\* a payload that does not decode
SpeechReplies == {<<>>, <<"pcm">>, <<"bad">>}
\* a grounding chunk: chunk.web is there or not, with its uri and title
\* ("" where the field is missing or empty)
WebChunk(uri, title) == [web |-> TRUE, uri |-> uri, title |-> title]
NoWebChunk == [web |-> FALSE, uri |-> "", title |-> ""]
\* what the backend answers to a search: response.text and the grounding
\* chunks of the first candidate
SearchReplies ==
  { [text |-> <<"s", "\n", "QUERY_USED:", " ", "x">>,
     chunks |-> <<WebChunk("u1", "t1")>>] }

\* the sequences over S of length up to n
SeqsUpTo(S, n) == UNION {[1..k -> S] : k \in 0..n}
\* the characters of a backend text
TextChars == {"QUERY_USED:", "a", "b", " ", "\n"}
\* the grounding chunks of a reply: without web, without uri, without
\* title, two of one uri, one of another
ChunkValues ==
  { NoWebChunk, WebChunk("", "t"), WebChunk("a", ""), WebChunk("a", "t"),
    WebChunk("b", "t") }
\* the replies to a search in SpecParse: every text without chunks, and
\* every list of chunks with one text
ParseReplies ==
  {[text |-> t, chunks |-> <<>>] : t \in SeqsUpTo(TextChars, MaxText)}
    \cup {[text |-> <<"s">>, chunks |-> c] : c \in SeqsUpTo(ChunkValues, MaxChunks)}

VARIABLES
  status,            \* AppStatus
  query,             \* the text of the input
  results,           \* <<>> (null) or <<SearchResponse>>
  error,             \* NullError or the message
  logs,              \* the activity log
  playbackFinished,
  isLuckyLoading,
  history,           \* HistoryItem[], most recent first
  audioContext,      \* audioContextRef.current: 0 (null) or the task that created it
  currentSource,     \* currentSourceRef.current: 0 (null) or the task whose source it is
  tasks,             \* the async handler invocations, in the order they were accepted
  clock,             \* the last reading of Date.now()
  added,             \* every HistoryItem ever put into the history, oldest first,
                     \* with the task that put it
  lastOp             \* the handler or continuation that ran last

vars == <<status, query, results, error, logs, playbackFinished, isLuckyLoading,
          history, audioContext, currentSource, tasks, clock, added, lastOp>>

(* --------------------------------------------------------------- helpers *)
IsSpace(c) == c \in {" ", "\n"}

\* String.prototype.trim
Trim(s) ==
  LET kept == {i \in 1..Len(s) : ~IsSpace(s[i])}
  IN IF kept = {} THEN <<>>
     ELSE SubSeq(s, CHOOSE i \in kept : \A j \in kept : i <= j,
                    CHOOSE i \in kept : \A j \in kept : j <= i)

\* a || b on strings: the empty string is falsy
OrElse(a, b) == IF a # <<>> THEN a ELSE b

Min(a, b) == IF a < b THEN a ELSE b

\* const isSearching = status !== IDLE && status !== PLAYING && status !== ERROR
isSearching(st) == st \notin {"IDLE", "PLAYING", "ERROR"}

\* const addLog = (msg) => setLogs(prev => [...prev, msg])
\* A log line is its fixed text; the values interpolated into it are left
\* out, but for the message of an error.
addLog(s, msg) == [s EXCEPT !.logs = Append(@, msg)]

\* The React state and the refs as one record, so that a handler's statements
\* compose in program order.
Cur ==
  [ status |-> status, query |-> query, results |-> results, error |-> error,
    logs |-> logs, playbackFinished |-> playbackFinished,
    isLuckyLoading |-> isLuckyLoading, history |-> history,
    audioContext |-> audioContext, currentSource |-> currentSource,
    tasks |-> tasks, added |-> added ]

\* The record is evaluated once, then assigned field by field.
Commit(next, op, now) ==
  \E s \in {next} :
    /\ status' = s.status
    /\ query' = s.query
    /\ results' = s.results
    /\ error' = s.error
    /\ logs' = s.logs
    /\ playbackFinished' = s.playbackFinished
    /\ isLuckyLoading' = s.isLuckyLoading
    /\ history' = s.history
    /\ audioContext' = s.audioContext
    /\ currentSource' = s.currentSource
    /\ tasks' = s.tasks
    /\ added' = s.added
    /\ lastOp' = op
    /\ clock' = now

\* A handler that returns at its guard: nothing but the record of the call.
Rejected(op) == Commit(Cur, [op |-> op, ok |-> FALSE], clock)

\* the record of a handler or continuation that ran
Op(op) == [op |-> op, ok |-> TRUE]

(* ------------------------------------------------------------------ tasks *)
\* pc: the await the task is suspended at, or how it ended
\* q: the argument the awaited call was given (the query, or the summary for
\* generateSpeech), res: the flow's searchRes,
\* reply: the response searchAndSummarize computed it from,
\* src: the AudioBufferSourceNode the task created
NewTask(pc, q) == [pc |-> pc, q |-> q, res |-> <<>>, reply |-> <<>>, src |-> "none"]

Spawn(s, pc, q) == [s EXCEPT !.tasks = Append(@, NewTask(pc, q))]

\* The task ran to its end: "played" (source.start() was reached) or "failed"
\* (a catch block ran).
Finish(s, t, pc) == [s EXCEPT !.tasks[t].pc = pc, !.tasks[t].q = NoText]

Suspend(s, t, pc, q) == [s EXCEPT !.tasks[t].pc = pc, !.tasks[t].q = q]

FlowPcs == {"delay", "search", "speech"}
PreludePcs == {"tweak", "lucky", "refine"}

(* -------------------------------------------------------------- stopAudio *)
\* stopAudio that sets the status to IDLE whatever it was
stopAudioAlwaysIdle(s) ==
  LET s1 == IF s.currentSource # 0
            THEN [s EXCEPT !.tasks[s.currentSource].src = "stopped",
                           !.currentSource = 0]
            ELSE s
  IN [s1 EXCEPT !.status = "IDLE"]

\* src/App.tsx 386-392. `status` is the status of the render the handler
\* belongs to: every caller calls it before any setStatus of its own.
stopAudio(s) ==
  LET s1 == IF s.currentSource # 0
            THEN [s EXCEPT !.tasks[s.currentSource].src = "stopped",
                           !.currentSource = 0]
            ELSE s
  IN IF status = "PLAYING" THEN [s1 EXCEPT !.status = "IDLE"] ELSE s1

(* ------------------------------------------------------ performSearchFlow *)
\* src/App.tsx 394-402: up to the await of the timer
FlowBegin(s, searchQuery) ==
  addLog([s EXCEPT !.error = NullError,
                   !.playbackFinished = FALSE,
                   !.status = "ANALYZING"],
         "Analyzing request")

\* `Error: ${err.message}` for the messages a flow can fail with
ErrorLine(message) ==
  CASE message = "Audio generation failed." -> "Error: Audio generation failed."
    [] message = "Network error" -> "Error: Network error"
    [] message = "Decode error" -> "Error: Decode error"
    [] OTHER -> "Error: undefined"

\* FlowCatch with a rollback: the catch also clears the active result.
FlowCatchClearsResults(s, message) ==
  addLog([s EXCEPT !.error = IF message # "" THEN message
                             ELSE "Search failed. Please try again.",
                   !.status = "ERROR",
                   !.results = <<>>],
         ErrorLine(message))

\* FlowCatch with a rollback: the catch also takes the newest entry out of
\* the history.
FlowCatchRollsBack(s, message) ==
  addLog([s EXCEPT !.error = IF message # "" THEN message
                             ELSE "Search failed. Please try again.",
                   !.status = "ERROR",
                   !.history = IF @ = <<>> THEN @ ELSE Tail(@)],
         ErrorLine(message))

\* FlowCatch that sets the status and the log line but not the error
FlowCatchStatusOnly(s, message) ==
  addLog([s EXCEPT !.status = "ERROR"], ErrorLine(message))

\* src/App.tsx 453-458: the catch of performSearchFlow; the log line is
\* `Error: ${err.message}`
FlowCatch(s, message) ==
  addLog([s EXCEPT !.error = IF message # "" THEN message
                             ELSE "Search failed. Please try again.",
                   !.status = "ERROR"],
         ErrorLine(message))

\* src/App.tsx 403-406: the timer fired
DelayElapsed(t) ==
  /\ t \in 1..Len(tasks)
  /\ tasks[t].pc = "delay"
  /\ Commit(Suspend(addLog([Cur EXCEPT !.status = "SEARCHING"],
                           "Consulting Google Search"),
                    t, "search", tasks[t].q),
            Op("DelayElapsed"), clock)

(* --------------------------------------- GeminiService.searchAndSummarize *)
\* QUERY_USED: under the flag i
IsMarker(c) == c \in {"QUERY_USED:", "query_used:"}

\* what `.` does not match
IsNewline(c) == c = "\n"

\* the first position at or after i that holds the literal, 0 if none
FindMarker(text, i) ==
  LET hits == {k \in i..Len(text) : IsMarker(text[k])}
  IN IF hits = {} THEN 0 ELSE CHOOSE k \in hits : \A h \in hits : k <= h

\* \s* from position i: the position after the run of whitespace
SkipSpace(text, i) ==
  CHOOSE j \in i..(Len(text) + 1) :
    /\ \A k \in i..(j - 1) : IsSpace(text[k])
    /\ j <= Len(text) => ~IsSpace(text[j])

\* .* from position i: the position after the rest of the line
SkipLine(text, i) ==
  CHOOSE j \in i..(Len(text) + 1) :
    /\ \A k \in i..(j - 1) : ~IsNewline(text[k])
    /\ j <= Len(text) => IsNewline(text[j])

\* fullText.match(/QUERY_USED:\s*(.*)/i): the leftmost literal, and as its
\* group 1 the rest of the line the whitespace after it runs into
QueryMatch(fullText) ==
  LET m == FindMarker(fullText, 1)
      j == SkipSpace(fullText, m + 1)
  IN IF m = 0 THEN [found |-> FALSE, group |-> <<>>]
     ELSE [found |-> TRUE, group |-> SubSeq(fullText, j, SkipLine(fullText, j) - 1)]

\* /QUERY_USED:\s*.*$/i matches at position m: after the literal and the
\* whitespace, the rest of the line is the rest of the text
MatchesToEnd(fullText, m) ==
  /\ IsMarker(fullText[m])
  /\ SkipLine(fullText, SkipSpace(fullText, m + 1)) = Len(fullText) + 1

\* the leftmost position at or after i at which that expression matches
FindAnchored(fullText, i) ==
  LET hits == {k \in i..Len(fullText) : MatchesToEnd(fullText, k)}
  IN IF hits = {} THEN 0 ELSE CHOOSE k \in hits : \A h \in hits : k <= h

\* fullText.replace(/QUERY_USED:\s*.*$/i, '')
StripMarker(fullText) ==
  LET m == FindAnchored(fullText, 1)
  IN IF m = 0 THEN fullText ELSE SubSeq(fullText, 1, m - 1)

\* groundingChunks.forEach(chunk => { if (chunk.web && chunk.web.uri) push })
RECURSIVE PushSources(_)
PushSources(chunks) ==
  IF chunks = <<>> THEN <<>>
  ELSE LET chunk == Head(chunks)
       IN (IF chunk.web /\ chunk.uri # ""
           THEN << [title |-> IF chunk.title # "" THEN chunk.title ELSE "Source",
                    uri |-> chunk.uri] >>
           ELSE <<>>) \o PushSources(Tail(chunks))

\* FindIndex that finds the last element of that uri
FindLastIndex(a, uri) ==
  CHOOSE i \in 1..Len(a) :
    a[i].uri = uri /\ \A j \in (i + 1)..Len(a) : a[j].uri # uri

\* a.findIndex(t => t.uri === uri), for a uri that is in a
FindIndex(a, uri) ==
  CHOOSE i \in 1..Len(a) :
    a[i].uri = uri /\ \A j \in 1..(i - 1) : a[j].uri # uri

\* sources.filter((v, i, a) => a.findIndex(t => t.uri === v.uri) === i),
\* from index i on
RECURSIVE FilterFrom(_, _)
FilterFrom(a, i) ==
  IF i > Len(a) THEN <<>>
  ELSE (IF FindIndex(a, a[i].uri) = i THEN <<a[i]>> ELSE <<>>) \o FilterFrom(a, i + 1)

\* src/App.tsx 912-955 on the backend's reply
\* Each local of the method is computed once, as in the code.
searchAndSummarize(q, reply) ==
  CHOOSE response \in
    { [ summary |-> IF queryMatch.found THEN Trim(stripped) ELSE fullText,
        sources |-> FilterFrom(sources, 1),
        actualQuery |-> IF queryMatch.found THEN Trim(queryMatch.group) ELSE q ] :
      fullText \in {reply.text},
      queryMatch \in {QueryMatch(reply.text)},
      stripped \in {StripMarker(reply.text)},
      sources \in {PushSources(reply.chunks)} } : TRUE

\* PushHistory that puts the new entry at the end
PushHistoryAtTail(prev, newItem) ==
  SubSeq(prev, 1, Min(KeepPrev, Len(prev))) \o <<newItem>>

\* PushHistory with prev.slice(0, 20)
PushHistoryKeepsTwenty(prev, newItem) ==
  <<newItem>> \o SubSeq(prev, 1, Min(KeepPrev + 1, Len(prev)))

\* setHistory(prev => [newItem, ...prev.slice(0, 19)])
PushHistory(prev, newItem) ==
  <<newItem>> \o SubSeq(prev, 1, Min(KeepPrev, Len(prev)))

\* src/App.tsx 406-424: searchAndSummarize resolved; `now` is what Date.now()
\* returns, which never runs backwards
SearchResolved(t, reply, now) ==
  /\ t \in 1..Len(tasks)
  /\ tasks[t].pc = "search"
  /\ now >= clock
  /\ \E searchRes \in {searchAndSummarize(tasks[t].q, reply)} :
       LET searchQuery == tasks[t].q
           newItem == [id |-> now, query |-> searchQuery, results |-> searchRes]
           s1 == addLog(Cur, "Found sources")
           s2 == addLog(s1, "Model used search term")
           s3 == addLog([s2 EXCEPT !.status = "SYNTHESIZING"], "Synthesizing")
           s4 == [s3 EXCEPT !.results = <<searchRes>>,
                            !.history = PushHistory(@, newItem),
                            !.added = Append(@, [item |-> newItem, by |-> t])]
           s5 == addLog([s4 EXCEPT !.status = "GENERATING_AUDIO"],
                        "Converting summary to speech")
       IN Commit([Suspend(s5, t, "speech", searchRes.summary)
                    EXCEPT !.tasks[t].res = <<searchRes>>, !.tasks[t].reply = <<reply>>],
                 Op("SearchResolved"), now)

\* SearchRejected without the jump to the catch: the flow goes on to the
\* speech request
SearchRejectedGoesOn(t, message) ==
  /\ t \in 1..Len(tasks)
  /\ tasks[t].pc = "search"
  /\ Commit(Suspend(FlowCatch(Cur, message), t, "speech", NoText),
            Op("SearchRejected"), clock)

\* src/App.tsx 406, 453-458: searchAndSummarize rejected
SearchRejected(t, message) ==
  /\ t \in 1..Len(tasks)
  /\ tasks[t].pc = "search"
  /\ Commit(Finish(FlowCatch(Cur, message), t, "failed"), Op("SearchRejected"), clock)

\* services/audio decodeAudioData(decodeBase64(payload), ...): whether the
\* payload decodes
Decodes(payload) == payload = <<"pcm">>

\* EnsureAudioContext without the test: a new context for every playback
EnsureAudioContextAlwaysNew(s, t) == [s EXCEPT !.audioContext = t]

\* src/App.tsx 429-431: if (!audioContextRef.current) audioContextRef.current = new ...
EnsureAudioContext(s, t) ==
  IF s.audioContext = 0 THEN [s EXCEPT !.audioContext = t] ELSE s

\* src/App.tsx 426-451 (and 453-458 when decoding throws): generateSpeech
\* resolved with a payload; decoding has no suspension of its own
Playback(s, t, payload) ==
  LET s1 == addLog([s EXCEPT !.status = "PLAYING"], "Playing audio summary")
      s2 == EnsureAudioContext(s1, t)
  IN IF Decodes(payload)
     THEN [s2 EXCEPT !.currentSource = t, !.tasks[t].src = "playing"]
     ELSE FlowCatch(s2, "Decode error")

\* SpeechHasAudio without the test: whatever came back is returned
SpeechHasAudioUntested(reply) == reply \in SpeechReplies

\* GeminiService.generateSpeech: if (!audioData) throw
SpeechHasAudio(reply) == reply # <<>>

SpeechResolved(t, reply) ==
  /\ t \in 1..Len(tasks)
  /\ tasks[t].pc = "speech"
  /\ IF SpeechHasAudio(reply)
     THEN IF Decodes(reply)
          THEN Commit(Finish(Playback(Cur, t, reply), t, "played"),
                      Op("SpeechResolved"), clock)
          ELSE Commit(Finish(Playback(Cur, t, reply), t, "failed"),
                      Op("DecodeFailed"), clock)
     ELSE Commit(Finish(FlowCatch(Cur, "Audio generation failed."), t, "failed"),
                 Op("SpeechRejected"), clock)

\* src/App.tsx 424, 453-458: the speech request itself rejected
SpeechRejected(t, message) ==
  /\ t \in 1..Len(tasks)
  /\ tasks[t].pc = "speech"
  /\ Commit(Finish(FlowCatch(Cur, message), t, "failed"), Op("SpeechRejected"), clock)

\* OnEnded without setStatus(IDLE)
OnEndedKeepsStatus(t) ==
  /\ t \in 1..Len(tasks)
  /\ tasks[t].src \in {"playing", "stopped"}
  /\ Commit(addLog([Cur EXCEPT !.currentSource = 0,
                               !.playbackFinished = TRUE,
                               !.tasks[t].src = "ended"],
                   "Playback finished"),
            Op(IF tasks[t].src = "playing" THEN "OnEnded" ELSE "OnEndedAfterStop"), clock)

\* src/App.tsx 443-448: the `ended` event of a source node. The node fires
\* it once, when its buffer has been played to the end or after stop().
OnEnded(t) ==
  /\ t \in 1..Len(tasks)
  /\ tasks[t].src \in {"playing", "stopped"}
  /\ Commit(addLog([Cur EXCEPT !.status = "IDLE",
                               !.currentSource = 0,
                               !.playbackFinished = TRUE,
                               !.tasks[t].src = "ended"],
                   "Playback finished"),
            Op(IF tasks[t].src = "playing" THEN "OnEnded" ELSE "OnEndedAfterStop"), clock)

(* --------------------------------------------------------------- handlers *)
\* SearchGuard that tests the query as typed, not trimmed
SearchGuardUntrimmed == query # <<>> /\ status \in {"IDLE", "ERROR"}

\* SearchGuard without the test of the status
SearchGuardIgnoresStatus == Trim(query) # <<>>

\* src/App.tsx 463
SearchGuard == Trim(query) # <<>> /\ status \in {"IDLE", "ERROR"}

\* src/App.tsx 461-469
handleSearch(cap) ==
  \/ /\ ~SearchGuard
     /\ Rejected("handleSearch")
  \/ /\ SearchGuard
     /\ Len(tasks) < cap
     /\ LET s1 == stopAudio([Cur EXCEPT !.results = <<>>, !.logs = <<>>])
        IN Commit(Spawn(FlowBegin(s1, query), "delay", query),
                  Op("handleSearch"), clock)

\* src/App.tsx 472
WorkshopGuard == Trim(query) # <<>> /\ ~isSearching(status) /\ ~isLuckyLoading

\* src/App.tsx 471-481
handleWorkshop(cap) ==
  \/ /\ ~WorkshopGuard
     /\ Rejected("handleWorkshop")
  \/ /\ WorkshopGuard
     /\ Len(tasks) < cap
     /\ LET s1 == stopAudio([Cur EXCEPT !.results = <<>>, !.logs = <<>>])
            s2 == addLog([s1 EXCEPT !.status = "TWEAKING"], "Workshop is optimizing")
        IN Commit(Spawn(s2, "tweak", query), Op("handleWorkshop"), clock)

\* tweakQuery that hands back the query it was given
tweakQueryKeepsOriginal(q, text) == q

\* GeminiService.tweakQuery: response.text?.trim() || query
tweakQuery(q, text) == OrElse(Trim(text), q)

\* src/App.tsx 481-484
TweakResolved(t, text) ==
  /\ t \in 1..Len(tasks)
  /\ tasks[t].pc = "tweak"
  /\ LET tweaked == tweakQuery(tasks[t].q, text)
         s1 == addLog([Cur EXCEPT !.query = tweaked], "Workshop output")
     IN Commit(Suspend(FlowBegin(s1, tweaked), t, "delay", tweaked),
               Op("TweakResolved"), clock)

\* src/App.tsx 485-489
TweakRejected(t) ==
  /\ t \in 1..Len(tasks)
  /\ tasks[t].pc = "tweak"
  /\ LET s1 == addLog(Cur, "Workshop failed to optimize the prompt.")
     IN Commit(Finish([s1 EXCEPT !.error = "Workshop optimization failed.",
                                 !.status = "ERROR"], t, "failed"),
               Op("TweakRejected"), clock)

\* LuckyGuard without the test of the loading flag
LuckyGuardIgnoresLoading == ~isSearching(status)

\* src/App.tsx 493
LuckyGuard == ~isLuckyLoading /\ ~isSearching(status)

\* src/App.tsx 492-502
handleFeelingLucky(cap) ==
  \/ /\ ~LuckyGuard
     /\ Rejected("handleFeelingLucky")
  \/ /\ LuckyGuard
     /\ Len(tasks) < cap
     /\ LET s1 == stopAudio([Cur EXCEPT !.isLuckyLoading = TRUE,
                                        !.results = <<>>, !.logs = <<>>])
            s2 == addLog(s1, "Gemini is brainstorming")
        IN Commit(Spawn(s2, "lucky", NoText), Op("handleFeelingLucky"), clock)

\* generateRandomPrompt without the default
generateRandomPromptNoDefault(text) == Trim(text)

\* GeminiService.generateRandomPrompt: response.text?.trim() || "Why is the sky blue?"
generateRandomPrompt(text) == OrElse(Trim(text), DefaultLuckyQuery)

\* src/App.tsx 502-506
LuckyResolved(t, text) ==
  /\ t \in 1..Len(tasks)
  /\ tasks[t].pc = "lucky"
  /\ LET randomPrompt == generateRandomPrompt(text)
         s1 == addLog([Cur EXCEPT !.query = randomPrompt], "Inspired query")
         s2 == [s1 EXCEPT !.isLuckyLoading = FALSE]
     IN Commit(Suspend(FlowBegin(s2, randomPrompt), t, "delay", randomPrompt),
               Op("LuckyResolved"), clock)

\* LuckyRejected that leaves the loading flag set
LuckyRejectedKeepsLoading(t) ==
  /\ t \in 1..Len(tasks)
  /\ tasks[t].pc = "lucky"
  /\ LET s1 == addLog(Cur, "Failed to generate a random prompt.")
     IN Commit(Finish([s1 EXCEPT !.error = "Inspiration failed. Please try a manual search.",
                                 !.status = "ERROR"], t, "failed"),
               Op("LuckyRejected"), clock)

\* src/App.tsx 507-512
LuckyRejected(t) ==
  /\ t \in 1..Len(tasks)
  /\ tasks[t].pc = "lucky"
  /\ LET s1 == addLog(Cur, "Failed to generate a random prompt.")
     IN Commit(Finish([s1 EXCEPT !.isLuckyLoading = FALSE,
                                 !.error = "Inspiration failed. Please try a manual search.",
                                 !.status = "ERROR"], t, "failed"),
               Op("LuckyRejected"), clock)

\* FindMoreGuard as a test of the status in place of the active result
FindMoreGuardIgnoresResults == status \in {"IDLE", "ERROR"}

\* src/App.tsx 516
FindMoreGuard == results # <<>>

\* src/App.tsx 515-525
handleFindMore(cap) ==
  \/ /\ ~FindMoreGuard
     /\ Rejected("handleFindMore")
  \/ /\ FindMoreGuard
     /\ Len(tasks) < cap
     /\ LET s1 == addLog([Cur EXCEPT !.status = "ANALYZING"],
                         "Generating a deeper research query")
        IN Commit(Spawn(s1, "refine", query), Op("handleFindMore"), clock)

\* GeminiService.refineQuery: response.text?.trim() || `${originalQuery} in detail`
refineQuery(originalQuery, text) == OrElse(Trim(text), originalQuery \o InDetail)

\* src/App.tsx 525-528
RefineResolved(t, text) ==
  /\ t \in 1..Len(tasks)
  /\ tasks[t].pc = "refine"
  /\ LET deeperQuery == refineQuery(tasks[t].q, text)
         s1 == addLog([Cur EXCEPT !.query = deeperQuery], "New exploration path")
     IN Commit(Suspend(FlowBegin(s1, deeperQuery), t, "delay", deeperQuery),
               Op("RefineResolved"), clock)

\* src/App.tsx 529-532
RefineRejected(t) ==
  /\ t \in 1..Len(tasks)
  /\ tasks[t].pc = "refine"
  /\ Commit(Finish([Cur EXCEPT !.error = "Failed to generate a deeper query.",
                               !.status = "ERROR"], t, "failed"),
            Op("RefineRejected"), clock)

\* src/App.tsx 535-541
handleGoBack ==
  Commit([stopAudio(Cur) EXCEPT !.results = <<>>,
                                !.status = "IDLE",
                                !.logs = <<>>,
                                !.playbackFinished = FALSE],
         Op("handleGoBack"), clock)

\* handleHistoryClick that also moves the selected entry to the head
handleHistoryClickPromotes(i) ==
  /\ i \in 1..Len(history)
  /\ LET item == history[i]
     IN Commit([stopAudio(Cur) EXCEPT !.results = <<item.results>>,
                                      !.query = item.query,
                                      !.logs = <<"Restored search results">>,
                                      !.status = "IDLE",
                                      !.playbackFinished = TRUE,
                                      !.history = <<item>> \o SubSeq(@, 1, i - 1)
                                                    \o SubSeq(@, i + 1, Len(@))],
               Op("handleHistoryClick"), clock)

\* src/App.tsx 543-550
handleHistoryClick(i) ==
  /\ i \in 1..Len(history)
  /\ LET item == history[i]
     IN Commit([stopAudio(Cur) EXCEPT !.results = <<item.results>>,
                                      !.query = item.query,
                                      !.logs = <<"Restored search results">>,
                                      !.status = "IDLE",
                                      !.playbackFinished = TRUE],
               Op("handleHistoryClick"), clock)

\* src/App.tsx 754: the Stop button
StopClick == Commit(stopAudio(Cur), Op("stopAudio"), clock)

\* src/App.tsx 739, 753-758: the Replay button is rendered with a result
\* and not PLAYING, and is disabled while isSearching
ReplayEnabled == results # <<>> /\ status # "PLAYING" /\ ~isSearching(status)

\* src/App.tsx 758: onClick={() => performSearchFlow(query)}
Replay(cap) ==
  /\ ReplayEnabled
  /\ Len(tasks) < cap
  /\ Commit(Spawn(FlowBegin(Cur, query), "delay", query), Op("Replay"), clock)

\* src/App.tsx 818: the retry button is rendered with the error
RetryEnabled == error # NullError

\* src/App.tsx 825: onClick={() => performSearchFlow(query)}
Retry(cap) ==
  /\ RetryEnabled
  /\ Len(tasks) < cap
  /\ Commit(Spawn(FlowBegin(Cur, query), "delay", query), Op("Retry"), clock)

\* src/App.tsx 645-647: typing into the input, disabled while busy
TypeQuery(q) ==
  /\ ~(isSearching(status) \/ isLuckyLoading)
  /\ q # query
  /\ Commit([Cur EXCEPT !.query = q], Op("setQuery"), clock)

(* ---------------------------------------------------------- specification *)
\* src/App.tsx 366-377: the useState and useRef initial values
Init ==
  /\ status = "IDLE"
  /\ query = <<>>
  /\ results = <<>>
  /\ error = NullError
  /\ logs = <<>>
  /\ playbackFinished = FALSE
  /\ isLuckyLoading = FALSE
  /\ history = <<>>
  /\ audioContext = 0
  /\ currentSource = 0
  /\ tasks = <<>>
  /\ clock = 0
  /\ added = <<>>
  /\ lastOp = [op |-> "init", ok |-> TRUE]

\* The entry points of a flow, each accepted at most MaxTasks times in all.
EntryPoint ==
  \/ handleSearch(MaxTasks)
  \/ handleWorkshop(MaxTasks)
  \/ handleFeelingLucky(MaxTasks)
  \/ handleFindMore(MaxTasks)
  \/ Replay(MaxTasks)
  \/ Retry(MaxTasks)
  \/ \E q \in QueryInputs : TypeQuery(q)

\* What the environment does to a suspended task: the timer fires, a remote
\* call resolves or rejects, a source node ends.
TaskStep(t) ==
  \/ DelayElapsed(t)
  \/ \E reply \in SearchReplies, now \in clock..MaxClock :
       SearchResolved(t, reply, now)
  \/ \E m \in RejectMessages : SearchRejected(t, m)
  \/ \E reply \in SpeechReplies : SpeechResolved(t, reply)
  \/ \E m \in RejectMessages : SpeechRejected(t, m)
  \/ OnEnded(t)
  \/ \E text \in BackendTexts : TweakResolved(t, text)
  \/ TweakRejected(t)
  \/ \E text \in BackendTexts : LuckyResolved(t, text)
  \/ LuckyRejected(t)
  \/ \E text \in BackendTexts : RefineResolved(t, text)
  \/ RefineRejected(t)

Continuation == \E t \in 1..MaxTasks : TaskStep(t)

Next ==
  \/ EntryPoint
  \/ Continuation
  \/ handleGoBack
  \/ StopClick
  \/ \E i \in 1..MaxTasks : handleHistoryClick(i)

Spec == Init /\ [][Next]_vars

\* no timer and no remote call is pending
NoCallPending == \A t \in 1..Len(tasks) : tasks[t].pc \notin FlowPcs \cup PreludePcs

\* A user who lets an invocation run: they act only while no timer or
\* remote call is pending (playback may be going on), but for stray clicks
\* on I'm Feeling Lucky, which come at any time. The environment is fair:
\* every pending timer or remote call comes back, resolved or rejected, and
\* every source node that was started fires its `ended` event.
NextLive ==
  \/ /\ NoCallPending
     /\ \/ handleSearch(MaxTasks)
        \/ handleWorkshop(MaxTasks)
        \/ handleFindMore(MaxTasks)
        \/ Replay(MaxTasks)
        \/ Retry(MaxTasks)
        \/ \E q \in QueryInputs : TypeQuery(q)
        \/ handleGoBack
        \/ StopClick
        \/ \E i \in 1..MaxTasks : handleHistoryClick(i)
  \/ handleFeelingLucky(MaxTasks)
  \/ Continuation

SpecLive ==
  Init /\ [][NextLive]_vars /\ \A t \in 1..MaxTasks : WF_vars(TaskStep(t))

\* The entry points alone against the pending calls: no Go back, no Stop,
\* no history selection.
NextEntryPoints == EntryPoint \/ Continuation

SpecEntryPoints == Init /\ [][NextEntryPoints]_vars

\* One successful search after the other, HistFlows of them: each is submitted
\* when the one before it has played to its end, and Date.now() has moved on
\* by then (a flow waits 600 ms before it searches).
NextHistory ==
  \/ handleSearch(HistFlows)
  \/ \E q \in QueryInputs : TypeQuery(q)
  \/ \E t \in 1..HistFlows :
       \/ DelayElapsed(t)
       \/ \E reply \in SearchReplies : SearchResolved(t, reply, clock + 1)
       \/ SpeechResolved(t, <<"pcm">>)
       \/ OnEnded(t)

SpecHistory == Init /\ [][NextHistory]_vars

\* I'm Feeling Lucky alone, with every kind of answer to the random-prompt
\* call, against Stop and Go back.
NextLucky ==
  \/ handleFeelingLucky(MaxTasks)
  \/ handleGoBack
  \/ StopClick
  \/ \E t \in 1..MaxTasks :
       \/ \E text \in LuckyTexts : LuckyResolved(t, text)
       \/ LuckyRejected(t)
       \/ DelayElapsed(t)
       \/ \E reply \in SearchReplies, now \in clock..MaxClock :
            SearchResolved(t, reply, now)
       \/ \E m \in RejectMessages : SearchRejected(t, m)
       \/ \E reply \in SpeechReplies : SpeechResolved(t, reply)
       \/ \E m \in RejectMessages : SpeechRejected(t, m)
       \/ OnEnded(t)

SpecLucky == Init /\ [][NextLucky]_vars

\* A search up to the return of searchAndSummarize, for every reply of the
\* backend.
NextParse ==
  \/ handleSearch(ParseFlows)
  \/ \E q \in QueryInputs : TypeQuery(q)
  \/ \E t \in 1..ParseFlows :
       \/ DelayElapsed(t)
       \/ \E reply \in ParseReplies : SearchResolved(t, reply, clock)

SpecParse == Init /\ [][NextParse]_vars

\* Searches against Go back with the clock running: Date.now() gives the
\* last reading again or a later one, up to MaxTick.
NextClock ==
  \/ handleSearch(MaxTasks)
  \/ \E q \in QueryInputs : TypeQuery(q)
  \/ handleGoBack
  \/ \E t \in 1..MaxTasks :
       \/ DelayElapsed(t)
       \/ \E reply \in SearchReplies, now \in clock..MaxTick :
            SearchResolved(t, reply, now)
       \/ SpeechResolved(t, <<"pcm">>)
       \/ OnEnded(t)

SpecClock == Init /\ [][NextClock]_vars

\* what the user types where blank queries matter
BlankInputs == {<<>>, <<" ">>, <<" ", "\n">>, <<"a">>}

\* Search and Workshop with blank and non-blank queries, in every status a
\* flow passes through, against Go back.
NextBlank ==
  \/ handleSearch(MaxTasks)
  \/ handleWorkshop(MaxTasks)
  \/ \E q \in BlankInputs : TypeQuery(q)
  \/ handleGoBack
  \/ \E t \in 1..MaxTasks :
       \/ \E text \in BackendTexts : TweakResolved(t, text)
       \/ TweakRejected(t)
       \/ DelayElapsed(t)
       \/ \E reply \in SearchReplies, now \in clock..MaxClock :
            SearchResolved(t, reply, now)
       \/ \E m \in RejectMessages : SearchRejected(t, m)
       \/ \E reply \in SpeechReplies : SpeechResolved(t, reply)
       \/ \E m \in RejectMessages : SpeechRejected(t, m)
       \/ OnEnded(t)

SpecBlank == Init /\ [][NextBlank]_vars

(* ----------------------------------------------------------------- claims *)
IsPrefix(a, b) == Len(a) <= Len(b) /\ SubSeq(b, 1, Len(a)) = a

InFlight == {t \in 1..Len(tasks) : tasks[t].pc \in FlowPcs}

\* the continuations in which a remote call resolved or rejected
RemoteResultOps ==
  { "SearchResolved", "SearchRejected", "SpeechResolved", "SpeechRejected",
    "DecodeFailed", "TweakResolved", "TweakRejected", "LuckyResolved",
    "LuckyRejected", "RefineResolved", "RefineRejected" }

\* the continuations in which a step of an entry point's sequence failed
FailureOps ==
  { "SearchRejected", "SpeechRejected", "DecodeFailed", "TweakRejected",
    "LuckyRejected", "RefineRejected" }

\* C1: a call of handleSearch while the status is neither IDLE nor ERROR
\* returns at its guard: status, log, active result, error, history, the
\* playing handle and the set of pending calls are as they were.
C1_SearchBusyIsNoOp ==
  [][(lastOp'.op = "handleSearch" /\ status \notin {"IDLE", "ERROR"})
       => /\ ~lastOp'.ok
          /\ UNCHANGED <<status, logs, results, error, history, currentSource,
                         tasks, query, playbackFinished, isLuckyLoading>>]_vars

C1_Witness ==
  /\ lastOp = [op |-> "handleSearch", ok |-> FALSE]
  /\ status = "SEARCHING"
  /\ Trim(query) # <<>>

\* C2: a call of handleWorkshop or handleFindMore while the status is neither
\* IDLE nor ERROR is rejected: no state change and no remote call.
C2_WorkshopFindMoreRejectedWhenBusy ==
  [][(lastOp'.op \in {"handleWorkshop", "handleFindMore"}
        /\ status \notin {"IDLE", "ERROR"})
       => /\ ~lastOp'.ok
          /\ UNCHANGED <<status, logs, results, error, history, currentSource,
                         tasks, query>>]_vars

\* C3: under the entry points alone, at most one core search flow (started,
\* and neither at playback start nor at Error yet) is in flight.
C3_AtMostOneFlowInFlight == Cardinality(InFlight) <= 1

\* C4: an accepted Replay leaves the status GENERATING_AUDIO with a
\* generateSpeech call pending: Replay awaits neither the timer nor
\* searchAndSummarize.
C4_ReplayStartsAtGeneratingAudio ==
  lastOp.op = "Replay"
    => /\ status = "GENERATING_AUDIO"
       /\ tasks[Len(tasks)].pc = "speech"

\* What one flow that succeeds end to end writes to the log, in order.
FlowLines ==
  << "Analyzing request", "Consulting Google Search", "Found sources",
     "Model used search term", "Synthesizing", "Converting summary to speech",
     "Playing audio summary" >>

\* C5: while a flow is in flight every step only appends to the log, and when
\* a flow reaches playback start the log ends with that flow's lines, every
\* phase there and in order.
C5_LogAppendOnlyInPhaseOrder ==
  [][/\ (InFlight # {}) => IsPrefix(logs, logs')
     /\ (lastOp'.op = "SpeechResolved")
          => /\ Len(logs') >= Len(FlowLines)
             /\ SubSeq(logs', Len(logs') - Len(FlowLines) + 1, Len(logs')) = FlowLines]_vars

\* C6: the history holds the 20 entries added last, or all of them when
\* fewer were added, the most recent first.
C6_HistoryKeepsLastTwenty ==
  LET n == Len(added)
      k == Min(n, 20)
  IN /\ Len(history) = k
     /\ \A i \in 1..k : history[i] = added[n - i + 1].item

C6_Witness ==
  /\ Len(added) = 21
  /\ Len(history) = 20
  /\ history[1].id = 21
  /\ history[20].id = 2
  /\ \A i \in 1..20 : history[i].id # 1

\* C7, as claimed: no entry of the history was put there by a flow that
\* ended in Error.
C7_NoEntryFromFailedFlow ==
  \A k \in 1..Len(added) : tasks[added[k].by].pc # "failed"

\* C7, amended: a flow has put an entry into the history exactly if its
\* searchAndSummarize call has succeeded, whatever became of the flow after
\* that, and a failure takes no entry out.
C7_EntryIffSearchSucceeded ==
  /\ \A t \in 1..Len(tasks) :
       (tasks[t].res # <<>>) <=> (\E k \in 1..Len(added) : added[k].by = t)
  /\ Len(history) = Min(20, Len(added))

C7_Witness ==
  /\ lastOp.op \in {"SpeechRejected", "DecodeFailed"}
  /\ status = "ERROR"
  /\ \E t \in 1..Len(tasks) :
       /\ tasks[t].pc = "failed"
       /\ tasks[t].res # <<>>
       /\ \E k \in 1..Len(history) : added[k].by = t

\* C8: a step in which a call of an entry point's sequence fails appends a
\* line to the log, sets the error message and sets the status to ERROR.
C8_FailureLoggedAndSurfaced ==
  [][(lastOp'.op \in FailureOps)
       => /\ status' = "ERROR"
          /\ error' # NullError
          /\ Len(logs') > Len(logs)
          /\ IsPrefix(logs, logs')]_vars

\* C9: the step in which generateSpeech or the decoding fails sets the
\* status to ERROR and leaves the active result as it was: the response of
\* the search stays active.
C9_SpeechFailureKeepsResult ==
  [][(lastOp'.op \in {"SpeechRejected", "DecodeFailed"})
       => /\ status' = "ERROR"
          /\ error' # NullError
          /\ results' = results]_vars

C9_Witness ==
  /\ lastOp.op = "SpeechRejected"
  /\ status = "ERROR"
  /\ \E t \in 1..Len(tasks) :
       /\ tasks[t].pc = "failed"
       /\ tasks[t].res # <<>>
       /\ results = tasks[t].res

\* C10: handleGoBack leaves the status IDLE, no active result, an empty log
\* and the playback-finished flag down, and a remote call that was pending
\* when it ran changes nothing when it returns right after it.
C10_GoBackDiscardsPendingCalls ==
  [][/\ (lastOp'.op = "handleGoBack")
          => /\ status' = "IDLE"
             /\ results' = <<>>
             /\ logs' = <<>>
             /\ ~playbackFinished'
     /\ (lastOp.op = "handleGoBack" /\ lastOp'.op \in RemoteResultOps)
          => UNCHANGED <<status, results, logs, error, history, currentSource>>]_vars

\* the source nodes that were started and have neither ended nor been stopped
Playing(ts) == {t \in 1..Len(ts) : ts[t].src = "playing"}

\* C11: Stop while the status is PLAYING stops the source held and sets the
\* status to IDLE without touching the playback-finished flag or the log,
\* and the completion callback never runs for a source that was stopped: no
\* step takes a stopped source to ended.
C11_StopSuppressesCompletion ==
  [][/\ (lastOp'.op = "stopAudio" /\ status = "PLAYING")
          => /\ status' = "IDLE"
             /\ currentSource' = 0
             /\ currentSource # 0 => tasks'[currentSource].src = "stopped"
             /\ UNCHANGED <<playbackFinished, logs>>
     /\ \A t \in 1..Len(tasks) :
          tasks[t].src = "stopped"
            => /\ tasks'[t].src = "stopped"
               /\ lastOp'.op # "OnEndedAfterStop"]_vars

\* C12: at most one source node is playing.
C12_AtMostOneBufferPlaying == Cardinality(Playing(tasks)) <= 1

\* C13: the status is PLAYING only with an active SearchResponse.
C13_PlayingHasResult == status = "PLAYING" => results # <<>>

\* C14: a call of handleFindMore with no active SearchResponse returns at its
\* guard: status, log, error, query and history are as they were, no call is
\* pending that was not, and nothing else of the session changes.
C14_FindMoreWithoutResultIsNoOp ==
  [][(lastOp'.op = "handleFindMore" /\ results = <<>>)
       => /\ ~lastOp'.ok
          /\ UNCHANGED <<status, logs, error, query, history, tasks, results,
                         playbackFinished, isLuckyLoading, currentSource>>]_vars

C14_Witness ==
  /\ lastOp = [op |-> "handleFindMore", ok |-> FALSE]
  /\ results = <<>>
  /\ status = "IDLE"
  /\ error = NullError
  /\ Trim(query) # <<>>

\* the generateRandomPrompt calls that are pending
LuckyPending(ts) == {t \in 1..Len(ts) : ts[t].pc = "lucky"}

\* C15: at most one generateRandomPrompt call is pending, and a call of
\* handleFeelingLucky while the loading flag is up changes nothing.
C15_FeelingLuckyNotReentrant ==
  [][/\ Cardinality(LuckyPending(tasks')) <= 1
     /\ (lastOp'.op = "handleFeelingLucky" /\ isLuckyLoading)
          => /\ ~lastOp'.ok
             /\ UNCHANGED <<status, logs, error, query, history, tasks, results,
                            playbackFinished, isLuckyLoading, currentSource>>]_vars

C15_Witness ==
  /\ lastOp = [op |-> "handleFeelingLucky", ok |-> FALSE]
  /\ isLuckyLoading
  /\ status = "IDLE"
  /\ Cardinality(LuckyPending(tasks)) = 1

\* task t is at the start of the core flow with the default query
RunsDefault(t) ==
  /\ query = DefaultLuckyQuery
  /\ status = "ANALYZING"
  /\ error = NullError
  /\ tasks[t].pc = "delay"
  /\ tasks[t].q = DefaultLuckyQuery

\* C16, as claimed: when the random-prompt call answers with no text or
\* with blank text, and when it fails, handleFeelingLucky goes on into the
\* core flow with the default query.
C16_FallbackOnEmptyOrFailed ==
  [][\A t \in 1..MaxTasks :
       /\ \A text \in LuckyTexts :
            (Trim(text) = <<>> /\ LuckyResolved(t, text)) => RunsDefault(t)'
       /\ LuckyRejected(t) => RunsDefault(t)']_vars

\* C16, amended: on an answer with no text or blank text the core flow runs
\* with the default query; when the call fails no flow runs: the status is
\* ERROR with the inspiration message, a line is logged, the loading flag is
\* down and the query is as it was.
C16_FallbackOnEmptyErrorOnFailed ==
  [][\A t \in 1..MaxTasks :
       /\ \A text \in LuckyTexts :
            (Trim(text) = <<>> /\ LuckyResolved(t, text)) => RunsDefault(t)'
       /\ LuckyRejected(t)
            => /\ status' = "ERROR"
               /\ error' = "Inspiration failed. Please try a manual search."
               /\ logs' = Append(logs, "Failed to generate a random prompt.")
               /\ ~isLuckyLoading'
               /\ query' = query
               /\ tasks'[t].pc = "failed"
               /\ InFlight' = InFlight]_vars

C16_Witness ==
  /\ lastOp.op = "LuckyResolved"
  /\ ~isLuckyLoading
  /\ \E t \in 1..Len(tasks) : RunsDefault(t)

\* C17: when the speech request comes back without audio data, the flow
\* fails with 'Audio generation failed.': status ERROR, that message in the
\* error field, its line appended to the log, and no source node created or
\* started.
C17_NoAudioFailsWithMessage ==
  [][\A t \in 1..MaxTasks :
       SpeechResolved(t, <<>>)
         => /\ status' = "ERROR"
            /\ error' = "Audio generation failed."
            /\ logs' = Append(logs, "Error: Audio generation failed.")
            /\ tasks'[t].pc = "failed"
            /\ tasks'[t].src = "none"
            /\ Playing(tasks') = Playing(tasks)
            /\ UNCHANGED <<currentSource, audioContext>>]_vars

C17_Witness ==
  /\ lastOp.op = "SpeechRejected"
  /\ status = "ERROR"
  /\ error = "Audio generation failed."
  /\ logs # <<>>
  /\ logs[Len(logs)] = "Error: Audio generation failed."
  /\ Playing(tasks) = {}

\* C18: when a source that was playing ends, its callback sets the status to
\* IDLE, raises the playback-finished flag and appends one 'Playback
\* finished.' line; a source that has ended does not end again; and the
\* handle is cleared only if it is the handle of the source that ended: the
\* handle of another source that is still playing stays.
C18_CompletionOnceAndOwnHandle ==
  [][/\ (lastOp'.op = "OnEnded")
          => /\ status' = "IDLE"
             /\ playbackFinished'
             /\ logs' = Append(logs, "Playback finished")
             /\ (currentSource # 0 /\ tasks'[currentSource].src = "playing")
                  => currentSource' = currentSource
     /\ \A t \in 1..Len(tasks) : tasks[t].src = "ended" => tasks'[t].src = "ended"]_vars

\* the position at which the last line of a text starts
LastLineStart(text) ==
  LET nl == {i \in 1..Len(text) : IsNewline(text[i])}
  IN IF nl = {} THEN 1 ELSE 1 + CHOOSE i \in nl : \A j \in nl : j <= i

\* the last line of the text is QUERY_USED: followed by its text
EndsWithMarkerLine(text) ==
  LastLineStart(text) <= Len(text) /\ IsMarker(text[LastLineStart(text)])

\* C19: for a backend text whose last line is the marker line, the response
\* has as actualQuery the trimmed text of that line after the marker, and as
\* summary the trimmed text before that line.
C19_TrailingMarkerParsed ==
  \A t \in 1..Len(tasks) :
    (tasks[t].reply # <<>> /\ EndsWithMarkerLine(tasks[t].reply[1].text))
      => LET text == tasks[t].reply[1].text
             k == LastLineStart(text)
         IN /\ tasks[t].res[1].actualQuery = Trim(SubSeq(text, k + 1, Len(text)))
            /\ tasks[t].res[1].summary = Trim(SubSeq(text, 1, k - 1))

\* the chunks that have a uri no chunk before them has
FirstOfUri(chunks) ==
  {i \in 1..Len(chunks) :
     /\ chunks[i].web
     /\ chunks[i].uri # ""
     /\ \A j \in 1..(i - 1) : chunks[j].uri # chunks[i].uri}

\* the n-th smallest member of a set of indexes
Nth(keep, n) == CHOOSE i \in keep : Cardinality({j \in keep : j <= i}) = n

\* C20: the sources of the response are the chunks that have a non-empty
\* uri which no earlier chunk has, in the order of the chunks.
C20_SourcesFirstOccurrenceInOrder ==
  \A t \in 1..Len(tasks) :
    (tasks[t].reply # <<>>)
      => LET chunks == tasks[t].reply[1].chunks
             keep == FirstOfUri(chunks)
             sources == tasks[t].res[1].sources
         IN /\ Len(sources) = Cardinality(keep)
            /\ \A n \in 1..Len(sources) :
                 LET chunk == chunks[Nth(keep, n)]
                 IN /\ sources[n].uri = chunk.uri
                    /\ sources[n].title \in {chunk.title, "Source"}
                    /\ chunk.title # "" => sources[n].title = chunk.title

C20_Witness ==
  \E t \in 1..Len(tasks) :
    /\ tasks[t].reply # <<>>
    /\ tasks[t].reply[1].chunks = <<WebChunk("a", ""), WebChunk("b", "t"), WebChunk("a", "t")>>
    /\ tasks[t].res[1].sources = << [title |-> "Source", uri |-> "a"],
                                    [title |-> "t", uri |-> "b"] >>
    /\ results = tasks[t].res

\* the await each task is suspended at, or how it ended
Pcs(ts) == [t \in 1..Len(ts) |-> ts[t].pc]

\* C21: selecting a history entry makes its response the active result and
\* its query the active query and sets the status to IDLE; no call is issued
\* (the pending calls are the ones there were) and the history is unchanged.
C21_HistoryClickRestoresWithoutFetch ==
  [][(lastOp'.op = "handleHistoryClick")
       => /\ \E i \in 1..Len(history) :
               /\ results' = <<history[i].results>>
               /\ query' = history[i].query
          /\ status' = "IDLE"
          /\ history' = history
          /\ Pcs(tasks') = Pcs(tasks)
          /\ UNCHANGED <<added, error, isLuckyLoading>>]_vars

C21_Witness ==
  /\ lastOp.op = "handleHistoryClick"
  /\ Len(history) = 2
  /\ history[1].query # history[2].query
  /\ results = <<history[2].results>>
  /\ query = history[2].query
  /\ status = "IDLE"

\* C22: Stop when no source is playing and the status is not PLAYING, and a
\* Stop right after a Stop, changes nothing.
C22_StopIdempotent ==
  [][(/\ lastOp'.op = "stopAudio"
      /\ \/ Playing(tasks) = {} /\ status # "PLAYING"
         \/ lastOp.op = "stopAudio")
       => UNCHANGED <<status, logs, results, error, history, currentSource, tasks,
                      query, playbackFinished, isLuckyLoading, audioContext>>]_vars

C22_Witness ==
  /\ lastOp.op = "stopAudio"
  /\ status = "SEARCHING"
  /\ currentSource = 0
  /\ \A t \in 1..Len(tasks) : tasks[t].src = "none"

\* C23: once the audio context is there, no step replaces or resets it; it
\* is created in the step in which a flow first comes back from
\* generateSpeech with a payload, before any source node exists; and every
\* source node was created with a context there.
C23_AudioContextCreatedOnce ==
  [][/\ audioContext # 0 => audioContext' = audioContext
     /\ (audioContext = 0 /\ audioContext' # 0)
          => /\ lastOp'.op \in {"SpeechResolved", "DecodeFailed"}
             /\ tasks[audioContext'].pc = "speech"
             /\ \A t \in 1..Len(tasks) : tasks[t].src = "none"
     /\ (\E t \in 1..Len(tasks') : tasks'[t].src # "none") => audioContext' # 0]_vars

C23_Witness ==
  \E t \in 1..Len(tasks) :
    /\ tasks[t].src = "playing"
    /\ audioContext # 0
    /\ audioContext # t

\* the order of the steps of one invocation
PcEdges ==
  { <<"tweak", "delay">>, <<"lucky", "delay">>, <<"refine", "delay">>,
    <<"tweak", "failed">>, <<"lucky", "failed">>, <<"refine", "failed">>,
    <<"delay", "search">>, <<"search", "speech">>, <<"search", "failed">>,
    <<"speech", "played">>, <<"speech", "failed">> }

\* a pending generateSpeech call has the summary of its flow's response as
\* argument; before the search returned there is no response; a source
\* node exists only in a flow that came back from generateSpeech
Sequential(ts) ==
  \A t \in 1..Len(ts) :
    /\ ts[t].pc = "speech"
         => /\ ts[t].res # <<>>
            /\ ts[t].q = ts[t].res[1].summary
            /\ ts[t].src = "none"
    /\ ts[t].pc \in {"delay", "search"} \cup PreludePcs
         => ts[t].res = <<>> /\ ts[t].src = "none"
    /\ ts[t].src # "none" => ts[t].pc = "played" /\ ts[t].res # <<>>

\* C24: the steps of one flow follow one another in program order, each
\* after the one before it has returned, and a flow that failed takes no
\* further step.
C24_FlowStepsSequential ==
  [][/\ Sequential(tasks')
     /\ \A t \in 1..Len(tasks) :
          /\ tasks'[t].pc # tasks[t].pc => <<tasks[t].pc, tasks'[t].pc>> \in PcEdges
          /\ tasks[t].pc = "failed" => tasks'[t] = tasks[t]]_vars

C24_Witness ==
  /\ lastOp.op = "SearchResolved"
  /\ \E t \in 1..Len(tasks) :
       /\ tasks[t].pc = "speech"
       /\ tasks[t].res # <<>>
       /\ tasks[t].q = tasks[t].res[1].summary
  /\ \E t \in 1..Len(tasks) : tasks[t].pc = "failed"

\* the invocations that have a step to come: a timer or call pending, or a
\* source node whose `ended` event is to come
Unfinished ==
  {t \in 1..Len(tasks) :
     tasks[t].pc \in FlowPcs \cup PreludePcs \/ tasks[t].src \in {"playing", "stopped"}}

\* C25: with a fair environment, a busy status (TWEAKING, ANALYZING,
\* SEARCHING, SYNTHESIZING, GENERATING_AUDIO, PLAYING) leads to IDLE or
\* ERROR, and every invocation that was accepted runs to its end.
C25_EveryFlowTerminates ==
  /\ (status \notin {"IDLE", "ERROR"}) ~> (status \in {"IDLE", "ERROR"})
  /\ (Unfinished # {}) ~> (Unfinished = {} /\ status \in {"IDLE", "ERROR"})

C25_Witness ==
  /\ lastOp.op = "OnEnded"
  /\ Len(tasks) = MaxTasks
  /\ Unfinished = {}
  /\ status = "IDLE"
  /\ \E t \in 1..Len(tasks) : tasks[t].pc = "failed"

\* C26: the step in which a flow's searchAndSummarize returns makes the
\* response the active result and puts at the head of the history an entry
\* with the query that was searched and that response, the entries there
\* were following it, and leaves the flow at its generateSpeech call.
C26_ResultAndHistoryInOneStep ==
  [][(lastOp'.op = "SearchResolved")
       => \E t \in 1..Len(tasks) :
            /\ tasks[t].pc = "search"
            /\ tasks'[t].pc = "speech"
            /\ tasks'[t].res # <<>>
            /\ results' = tasks'[t].res
            /\ history' # <<>>
            /\ history'[1].query = tasks[t].q
            /\ history'[1].results = tasks'[t].res[1]
            /\ IsPrefix(Tail(history'), history)
            /\ Len(history') = Min(20, Len(history) + 1)]_vars

C26_Witness ==
  /\ lastOp.op = "SearchResolved"
  /\ status = "GENERATING_AUDIO"
  /\ Len(history) = 2
  /\ history[1].query # history[2].query
  /\ results = <<history[1].results>>
  /\ \E t \in 1..Len(tasks) : tasks[t].pc = "speech" /\ tasks[t].res = results

\* C27: whenever a source node is playing, the status is PLAYING and the
\* handle refers to that node.
C27_AudioOnlyWhilePlaying ==
  \A t \in Playing(tasks) : status = "PLAYING" /\ currentSource = t

\* the lines a step appended to the log
Appended(before, after) == SubSeq(after, Len(before) + 1, Len(after))

\* C28: the step in which a payload fails to decode sets the status to ERROR
\* with the error set, starts no source node and leaves the handle as it
\* was, and does not append the 'Playing audio summary.' line.
C28_DecodeFailureBeforePlaying ==
  [][(lastOp'.op = "DecodeFailed")
       => /\ status' = "ERROR"
          /\ error' # NullError
          /\ Playing(tasks') = Playing(tasks)
          /\ currentSource' = currentSource
          /\ IsPrefix(logs, logs')
          /\ \A n \in 1..Len(Appended(logs, logs')) :
               Appended(logs, logs')[n] # "Playing audio summary"]_vars

\* C29: an accepted Workshop click sets the status to TWEAKING and calls
\* tweakQuery with the query; when it returns, the query is replaced by the
\* returned text (the trimmed reply, or the original when that is empty) and
\* the flow runs with it up to its search; when it fails, the status is
\* ERROR and the invocation makes no further step, so no search is made.
C29_WorkshopTweaksThenSearches ==
  [][/\ (lastOp'.op = "handleWorkshop" /\ lastOp'.ok)
          => /\ status' = "TWEAKING"
             /\ Len(tasks') = Len(tasks) + 1
             /\ tasks'[Len(tasks')].pc = "tweak"
             /\ tasks'[Len(tasks')].q = query
     /\ \A t \in 1..Len(tasks) :
          /\ \A text \in BackendTexts :
               TweakResolved(t, text)
                 => /\ query' = OrElse(Trim(text), tasks[t].q)
                    /\ tasks'[t].pc = "delay"
                    /\ tasks'[t].q = query'
          /\ (tasks[t].pc = "delay" /\ tasks'[t].pc = "search")
               => tasks'[t].q = tasks[t].q
          /\ TweakRejected(t)
               => /\ status' = "ERROR"
                  /\ error' # NullError
                  /\ tasks'[t].pc = "failed"
          /\ (tasks[t].pc = "failed") => tasks'[t] = tasks[t]
          /\ (tasks'[t].pc = "search") => tasks[t].pc \in {"delay", "search"}]_vars

C29_Witness ==
  /\ lastOp.op = "DelayElapsed"
  /\ query = <<"b">>
  /\ status = "SEARCHING"
  /\ \E t \in 1..Len(tasks) :
       /\ tasks[t].pc = "search"
       /\ tasks[t].q = <<"b">>
  /\ "Workshop output" \in {logs[n] : n \in 1..Len(logs)}

\* C30: in every reachable state, status ERROR comes with an error message.
C30_ErrorStatusHasMessage == status = "ERROR" => error # NullError

C30_Witness ==
  /\ lastOp.op \in {"SearchRejected", "SpeechRejected", "DecodeFailed"}
  /\ status = "ERROR"
  /\ error # NullError
  /\ InFlight # {}

\* the operations of the user that can take the status out of ERROR
LeavingOps ==
  { "handleSearch", "handleWorkshop", "handleFeelingLucky", "handleFindMore",
    "handleGoBack", "handleHistoryClick", "Replay", "Retry" }

\* C31: the error is non-null only while the status is ERROR: an operation
\* that takes the status out of ERROR leaves the error null, and so does
\* every other step that produces a status other than ERROR.
C31_ErrorOnlyInErrorStatus ==
  [][/\ (status = "ERROR" /\ status' # "ERROR" /\ lastOp'.op \in LeavingOps)
          => error' = NullError
     /\ (status' # "ERROR") => error' = NullError]_vars

\* C32: the entries held in the history at the same time have pairwise
\* distinct ids.
C32_HistoryIdsDistinct ==
  \A i, j \in 1..Len(history) : i # j => history[i].id # history[j].id

AppState ==
  <<status, query, results, error, logs, playbackFinished, isLuckyLoading,
    history, audioContext, currentSource, tasks>>

\* C34: Search or Workshop with an empty or whitespace-only query changes
\* no field of the state and issues no call, whatever the status.
C34_BlankQueryIsNoOp ==
  [][(Trim(query) = <<>> /\ lastOp'.op \in {"handleSearch", "handleWorkshop"})
       => /\ ~lastOp'.ok
          /\ AppState' = AppState]_vars

C34_Witness ==
  /\ lastOp = [op |-> "handleWorkshop", ok |-> FALSE]
  /\ query = <<" ", "\n">>
  /\ status = "GENERATING_AUDIO"
  /\ InFlight # {}

====
